---- MODULE Spec2Model ----
(***************************************************************************)
(* Model of the agentic orchestration engine of                            *)
(* services/agentic_orchestration_service.py: the AgentState record, the   *)
(* AgenticPlanner, the boundary checker, the quality extractor and the     *)
(* loop of orchestrate_agentic_workflow.                                   *)
(*                                                                         *)
(* Conventions.                                                            *)
(*  - Scores and thresholds are floats k/100 in the code; the model keeps  *)
(*    the integer k (a percentage), so 0.5 is 50 and 0.65 is 65.  n/100.0  *)
(*    and the literal with the same decimal digits are the same double,    *)
(*    so the comparisons agree with the integer comparisons.               *)
(*  - Optional[str] is a sequence of length at most one: <<>> is None and  *)
(*    <<t>> is the string t.                                               *)
(*  - A string is a sequence of tokens; "\n" is the newline token.         *)
(***************************************************************************)
EXTENDS Integers, Sequences, FiniteSets, TLC

VARIABLES
    threshold,        \* AgenticPlanner.quality_threshold (percent)
    state,            \* the AgentState of the workflow
    results,          \* the results dict of orchestrate_agentic_workflow
    pc,               \* position of the workflow coroutine
    next_action,      \* local variable next_action
    reason,           \* local variable reason
    boundary,         \* the boundary classification call and its verdict
    iterations,       \* number of times the body of the while loop was entered
    planner_calls,    \* number of calls of decide_next_action by the loop
    calls,            \* log of the tool calls made by the loop
    arg,              \* input of the function under test (unit specifications)
    ret               \* its result (unit specifications)

vars == <<threshold, state, results, pc, next_action, reason, boundary,
          iterations, planner_calls, calls, arg, ret>>

----------------------------------------------------------------------------
(* Bounds of the model *)

MaxTokens == 1
MaxLatency == 1
PlanAttempts == 6

(* Program constants *)

DefaultMaxAttempts == 5
DefaultThreshold == 75
RestartCutoff == 50
MajorCutoff == 65
ApproveScore == 80
ReviseScore == 60
FallbackScore == 40
ScoreCap == 100

None == "None"
NoneText == <<>>
SomeText(t) == <<t>>

Min(a, b) == IF a <= b THEN a ELSE b

----------------------------------------------------------------------------
(* Strings as token sequences *)

NL == "\n"

\* str.lower() on the tokens the model uses; any other token is unchanged
LowerMap ==
    [t \in {"Quality Score", "QUALITY SCORE", "Y", "E", "S", "N", "O"} |->
        CASE t \in {"Quality Score", "QUALITY SCORE"} -> "quality score"
          [] t = "Y" -> "y" [] t = "E" -> "e" [] t = "S" -> "s"
          [] t = "N" -> "n" [] t = "O" -> "o"]

Lower(t) == IF t \in DOMAIN LowerMap THEN LowerMap[t] ELSE t

LowerAll(s) == [i \in 1..Len(s) |-> Lower(s[i])]

\* the tokens matched by \d+ and their values
IntOf ==
    [t \in {"0", "8", "40", "49", "50", "64", "65", "70", "74", "75", "85",
            "100", "150"} |->
        CASE t = "0" -> 0 [] t = "8" -> 8 [] t = "40" -> 40 [] t = "49" -> 49
          [] t = "50" -> 50 [] t = "64" -> 64 [] t = "65" -> 65
          [] t = "70" -> 70 [] t = "74" -> 74 [] t = "75" -> 75
          [] t = "85" -> 85 [] t = "100" -> 100 [] t = "150" -> 150]

IsInt(t) == t \in DOMAIN IntOf

\* x in s, for a one-token x
Contains(s, x) == \E i \in 1..Len(s) : s[i] = x

\* x in s, for a string x of several tokens
ContainsSeq(s, x) ==
    \E i \in 1..(Len(s) - Len(x) + 1) : SubSeq(s, i, i + Len(x) - 1) = x

\* s.strip(): s without its leading and trailing blanks
RECURSIVE Strip(_)
Strip(s) ==
    IF s = <<>> THEN s
    ELSE IF Head(s) = " " THEN Strip(Tail(s))
    ELSE IF s[Len(s)] = " " THEN Strip(SubSeq(s, 1, Len(s) - 1))
    ELSE s

\* s.split('\n'): the maximal newline-free pieces, at least one
RECURSIVE SplitLines(_)
SplitLines(s) ==
    IF \A i \in 1..Len(s) : s[i] # NL
    THEN <<s>>
    ELSE LET k == CHOOSE i \in 1..Len(s) :
                      s[i] = NL /\ \A j \in 1..(i - 1) : s[j] # NL
         IN <<SubSeq(s, 1, k - 1)>> \o SplitLines(SubSeq(s, k + 1, Len(s)))

\* re.search(r'\d+', line): the first integer of the line, <<>> if none
FirstInt(line) ==
    IF \E i \in 1..Len(line) : IsInt(line[i])
    THEN LET k == CHOOSE i \in 1..Len(line) :
                      IsInt(line[i]) /\ \A j \in 1..(i - 1) : ~IsInt(line[j])
         IN <<IntOf[line[k]]>>
    ELSE <<>>

----------------------------------------------------------------------------
(* Quality extractor *)

\* variant: the score is not clamped
RECURSIVE MarkerScore_NoClamp(_)
MarkerScore_NoClamp(lines) ==
    IF lines = <<>> THEN <<>>
    ELSE LET line == Head(lines)
         IN IF Contains(LowerAll(line), "quality score") /\ FirstInt(line) # <<>>
            THEN <<FirstInt(line)[1]>>
            ELSE MarkerScore_NoClamp(Tail(lines))

\* the score of the first marker line that has an integer, <<>> if none
RECURSIVE MarkerScore(_)
MarkerScore(lines) ==
    IF lines = <<>> THEN <<>>
    ELSE LET line == Head(lines)
         IN IF Contains(LowerAll(line), "quality score") /\ FirstInt(line) # <<>>
            THEN <<Min(FirstInt(line)[1], ScoreCap)>>
            ELSE MarkerScore(Tail(lines))

\* variant: an empty text scores nothing
_extract_quality_score_EmptyIsZero(validation_text) ==
    LET m == MarkerScore(SplitLines(validation_text))
    IN IF validation_text = <<>> THEN 0
       ELSE IF m # <<>> THEN m[1]
       ELSE IF Contains(validation_text, "PASS") \/ Contains(validation_text, "APPROVE")
            THEN ApproveScore
       ELSE IF Contains(validation_text, "REVISE") THEN ReviseScore
       ELSE FallbackScore

\* variant: the keywords are looked at before the marker
_extract_quality_score_KeywordsFirst(validation_text) ==
    LET m == MarkerScore(SplitLines(validation_text))
    IN IF Contains(validation_text, "PASS") \/ Contains(validation_text, "APPROVE")
            THEN ApproveScore
       ELSE IF m # <<>> THEN m[1]
       ELSE IF Contains(validation_text, "REVISE") THEN ReviseScore
       ELSE FallbackScore

_extract_quality_score(validation_text) ==
    LET m == MarkerScore(SplitLines(validation_text))
    IN IF m # <<>> THEN m[1]
       ELSE IF Contains(validation_text, "PASS") \/ Contains(validation_text, "APPROVE")
            THEN ApproveScore
       ELSE IF Contains(validation_text, "REVISE") THEN ReviseScore
       ELSE FallbackScore

----------------------------------------------------------------------------
(* AgentState and the planner *)

\* AgentState(workflow_id, query) with the defaults of the class; the two
\* immutable identifiers are not read by the engine and are left out
AgentState ==
    [goal_achieved |-> FALSE,
     attempts |-> 0,
     max_attempts |-> DefaultMaxAttempts,
     research_output |-> NoneText,
     analysis_output |-> NoneText,
     validation_output |-> NoneText,
     quality_score |-> 0,
     action_history |-> <<>>,
     total_latency_ms |-> 0,
     total_tokens |-> 0]

\* variant: gives up one attempt too late
decide_next_action_LateGiveUp(s, thr) ==
    IF s.attempts > s.max_attempts THEN [action |-> None, state |-> s]
    ELSE IF s.goal_achieved /\ s.quality_score >= thr THEN [action |-> None, state |-> s]
    ELSE IF s.research_output = NoneText THEN [action |-> "research", state |-> s]
    ELSE IF s.analysis_output = NoneText THEN [action |-> "analyze", state |-> s]
    ELSE IF s.validation_output = NoneText THEN [action |-> "validate", state |-> s]
    ELSE IF s.quality_score < thr
         THEN IF s.quality_score < RestartCutoff
              THEN [action |-> "research", state |-> s]
              ELSE IF s.quality_score < MajorCutoff
                   THEN [action |-> "refine_analysis", state |-> s]
              ELSE [action |-> "refine_minor", state |-> s]
    ELSE [action |-> None, state |-> [s EXCEPT !.goal_achieved = TRUE]]

\* variant: the 0.65 cutoff is inclusive
decide_next_action_CutoffInclusive(s, thr) ==
    IF s.attempts >= s.max_attempts THEN [action |-> None, state |-> s]
    ELSE IF s.goal_achieved /\ s.quality_score >= thr THEN [action |-> None, state |-> s]
    ELSE IF s.research_output = NoneText THEN [action |-> "research", state |-> s]
    ELSE IF s.analysis_output = NoneText THEN [action |-> "analyze", state |-> s]
    ELSE IF s.validation_output = NoneText THEN [action |-> "validate", state |-> s]
    ELSE IF s.quality_score < thr
         THEN IF s.quality_score < RestartCutoff
              THEN [action |-> "research", state |-> s]
              ELSE IF s.quality_score <= MajorCutoff
                   THEN [action |-> "refine_analysis", state |-> s]
              ELSE [action |-> "refine_minor", state |-> s]
    ELSE [action |-> None, state |-> [s EXCEPT !.goal_achieved = TRUE]]

\* variant: a restart also forgets the earlier validation
decide_next_action_RestartClears(s, thr) ==
    IF s.attempts >= s.max_attempts THEN [action |-> None, state |-> s]
    ELSE IF s.goal_achieved /\ s.quality_score >= thr THEN [action |-> None, state |-> s]
    ELSE IF s.research_output = NoneText THEN [action |-> "research", state |-> s]
    ELSE IF s.analysis_output = NoneText THEN [action |-> "analyze", state |-> s]
    ELSE IF s.validation_output = NoneText THEN [action |-> "validate", state |-> s]
    ELSE IF s.quality_score < thr
         THEN IF s.quality_score < RestartCutoff
              THEN [action |-> "research", state |-> [s EXCEPT !.validation_output = NoneText]]
              ELSE IF s.quality_score < MajorCutoff
                   THEN [action |-> "refine_analysis", state |-> s]
              ELSE [action |-> "refine_minor", state |-> s]
    ELSE [action |-> None, state |-> [s EXCEPT !.goal_achieved = TRUE]]

\* variant: the analysis is looked at before the research
decide_next_action_AnalyzeFirst(s, thr) ==
    IF s.attempts >= s.max_attempts THEN [action |-> None, state |-> s]
    ELSE IF s.goal_achieved /\ s.quality_score >= thr THEN [action |-> None, state |-> s]
    ELSE IF s.analysis_output = NoneText THEN [action |-> "analyze", state |-> s]
    ELSE IF s.research_output = NoneText THEN [action |-> "research", state |-> s]
    ELSE IF s.validation_output = NoneText THEN [action |-> "validate", state |-> s]
    ELSE IF s.quality_score < thr
         THEN IF s.quality_score < RestartCutoff
              THEN [action |-> "research", state |-> s]
              ELSE IF s.quality_score < MajorCutoff
                   THEN [action |-> "refine_analysis", state |-> s]
              ELSE [action |-> "refine_minor", state |-> s]
    ELSE [action |-> None, state |-> [s EXCEPT !.goal_achieved = TRUE]]

\* variant: the two refinements are swapped
decide_next_action_RefineSwapped(s, thr) ==
    IF s.attempts >= s.max_attempts THEN [action |-> None, state |-> s]
    ELSE IF s.goal_achieved /\ s.quality_score >= thr THEN [action |-> None, state |-> s]
    ELSE IF s.research_output = NoneText THEN [action |-> "research", state |-> s]
    ELSE IF s.analysis_output = NoneText THEN [action |-> "analyze", state |-> s]
    ELSE IF s.validation_output = NoneText THEN [action |-> "validate", state |-> s]
    ELSE IF s.quality_score < thr
         THEN IF s.quality_score < RestartCutoff
              THEN [action |-> "research", state |-> s]
              ELSE IF s.quality_score < MajorCutoff
                   THEN [action |-> "refine_minor", state |-> s]
              ELSE [action |-> "refine_analysis", state |-> s]
    ELSE [action |-> None, state |-> [s EXCEPT !.goal_achieved = TRUE]]

\* variant: a score just below the threshold is validated again
decide_next_action_Revalidates(s, thr) ==
    IF s.attempts >= s.max_attempts THEN [action |-> None, state |-> s]
    ELSE IF s.goal_achieved /\ s.quality_score >= thr THEN [action |-> None, state |-> s]
    ELSE IF s.research_output = NoneText THEN [action |-> "research", state |-> s]
    ELSE IF s.analysis_output = NoneText THEN [action |-> "analyze", state |-> s]
    ELSE IF s.validation_output = NoneText THEN [action |-> "validate", state |-> s]
    ELSE IF s.quality_score < thr
         THEN IF s.quality_score < RestartCutoff THEN [action |-> "research", state |-> s]
              ELSE IF s.quality_score < MajorCutoff
                   THEN [action |-> "refine_analysis", state |-> s]
              ELSE [action |-> "validate", state |-> s]
    ELSE [action |-> None, state |-> [s EXCEPT !.goal_achieved = TRUE]]

\* variant: a very poor score is refined instead of restarted
decide_next_action_NoRestart(s, thr) ==
    IF s.attempts >= s.max_attempts THEN [action |-> None, state |-> s]
    ELSE IF s.goal_achieved /\ s.quality_score >= thr THEN [action |-> None, state |-> s]
    ELSE IF s.research_output = NoneText THEN [action |-> "research", state |-> s]
    ELSE IF s.analysis_output = NoneText THEN [action |-> "analyze", state |-> s]
    ELSE IF s.validation_output = NoneText THEN [action |-> "validate", state |-> s]
    ELSE IF s.quality_score < thr
         THEN IF s.quality_score < RestartCutoff
              THEN [action |-> "refine_analysis", state |-> s]
              ELSE IF s.quality_score < MajorCutoff
                   THEN [action |-> "refine_analysis", state |-> s]
              ELSE [action |-> "refine_minor", state |-> s]
    ELSE [action |-> None, state |-> [s EXCEPT !.goal_achieved = TRUE]]

\* the action returned and the state as the call leaves it
decide_next_action(s, thr) ==
    IF s.attempts >= s.max_attempts THEN [action |-> None, state |-> s]
    ELSE IF s.goal_achieved /\ s.quality_score >= thr THEN [action |-> None, state |-> s]
    ELSE IF s.research_output = NoneText THEN [action |-> "research", state |-> s]
    ELSE IF s.analysis_output = NoneText THEN [action |-> "analyze", state |-> s]
    ELSE IF s.validation_output = NoneText THEN [action |-> "validate", state |-> s]
    ELSE IF s.quality_score < thr
         THEN IF s.quality_score < RestartCutoff THEN [action |-> "research", state |-> s]
              ELSE IF s.quality_score < MajorCutoff
                   THEN [action |-> "refine_analysis", state |-> s]
              ELSE [action |-> "refine_minor", state |-> s]
    ELSE [action |-> None, state |-> [s EXCEPT !.goal_achieved = TRUE]]

\* variant: the attempt test is inverted
should_retry_Inverted(s, quality_score, thr) ==
    IF quality_score >= thr THEN FALSE
    ELSE IF s.attempts < s.max_attempts THEN FALSE
    ELSE TRUE

\* variant: a score equal to the threshold is retried
should_retry_ThresholdRetries(s, quality_score, thr) ==
    IF quality_score > thr THEN FALSE
    ELSE IF s.attempts >= s.max_attempts THEN FALSE
    ELSE TRUE

should_retry(s, quality_score, thr) ==
    IF quality_score >= thr THEN FALSE
    ELSE IF s.attempts >= s.max_attempts THEN FALSE
    ELSE TRUE

----------------------------------------------------------------------------
(* Boundary checker *)

RejectionReason == "Query rejected - relates to forbidden topics."

\* variant: the answer is not lower-cased
_check_boundaries_CaseSensitive(resp) ==
    IF ~resp.ok THEN <<TRUE, None>>
    ELSE IF resp.content = NoneText THEN <<TRUE, None>>
    ELSE LET llm_answer == Strip(resp.content[1])
         IN IF ContainsSeq(llm_answer, <<"y", "e", "s">>)
            THEN <<FALSE, RejectionReason>>
            ELSE <<TRUE, None>>

\* resp is what client.chat.completions.create did: it raised (ok = FALSE)
\* or returned a message whose content is a string or None.  The result is
\* the pair (allowed, reason).
_check_boundaries(resp) ==
    IF ~resp.ok THEN <<TRUE, None>>
    ELSE IF resp.content = NoneText THEN <<TRUE, None>>   \* None.strip() raises
    ELSE LET llm_answer == LowerAll(Strip(resp.content[1]))
         IN IF ContainsSeq(llm_answer, <<"y", "e", "s">>)
            THEN <<FALSE, RejectionReason>>
            ELSE <<TRUE, None>>

----------------------------------------------------------------------------
(* Capability client *)

\* variant: the failure response keeps the usage of the API response
_execute_llm_LeaksUsage(out) ==
    IF out.ok /\ out.content # NoneText
    THEN [content |-> out.content[1],
          latency_ms |-> out.latency_ms,
          token_usage |-> [prompt_tokens |-> out.prompt_tokens,
                           completion_tokens |-> out.completion_tokens,
                           total_tokens |-> out.total_tokens],
          success |-> TRUE,
          error |-> None]
    ELSE [content |-> <<>>,
          latency_ms |-> out.latency_ms,
          token_usage |-> [prompt_tokens |-> out.prompt_tokens,
                           completion_tokens |-> out.completion_tokens,
                           total_tokens |-> out.total_tokens],
          success |-> FALSE,
          error |-> IF out.ok THEN "ValidationError" ELSE "APIError"]

\* out is what client.chat.completions.create did for a tool call: it raised
\* (ok = FALSE) or returned content and usage counters.  An AgentResponse
\* cannot be built from a None content: that raises inside the try block too.
_execute_llm(out) ==
    IF out.ok /\ out.content # NoneText
    THEN [content |-> out.content[1],
          latency_ms |-> out.latency_ms,
          token_usage |-> [prompt_tokens |-> out.prompt_tokens,
                           completion_tokens |-> out.completion_tokens,
                           total_tokens |-> out.total_tokens],
          success |-> TRUE,
          error |-> None]
    ELSE [content |-> <<>>,
          latency_ms |-> out.latency_ms,
          token_usage |-> [prompt_tokens |-> 0, completion_tokens |-> 0,
                           total_tokens |-> 0],
          success |-> FALSE,
          error |-> IF out.ok THEN "ValidationError" ELSE "APIError"]

----------------------------------------------------------------------------
(* What the external capability can answer *)

Thresholds == {40, 60, DefaultThreshold, 90}

\* no call of the API was made
NoCall == [ok |-> FALSE, content |-> NoneText, total_tokens |-> 0, latency_ms |-> 0]

\* answers of the boundary classification call, as character sequences
BoundaryAnswers ==
    { <<"Y", "E", "S">>, <<"y", "e", "s">>, <<" ", "Y", "e", "s", ".">>,
      <<"N", "O">>, <<"n", "o">>, <<>>, <<"e", "Y", "E", "S">>,
      <<"Y", "E", " ", "S">>, <<"S", "E", "Y">> }

\* what client.chat.completions.create can do for the classification call:
\* it raised, or it returned a message and used tokens (one for the prompt
\* and one for each character of the answer); either way it took time, which
\* the code does not measure and the model counts as one unit
BoundaryResponses ==
    { [ok |-> FALSE, content |-> NoneText, total_tokens |-> 0, latency_ms |-> 1],
      [ok |-> TRUE, content |-> NoneText, total_tokens |-> 1, latency_ms |-> 1] }
    \cup { [ok |-> TRUE, content |-> SomeText(a), total_tokens |-> 1 + Len(a),
            latency_ms |-> 1]
        : a \in BoundaryAnswers }

\* texts of the research, analysis and refinement calls
PlainTexts == { <<>>, <<"text">> }

\* texts of the validation call
ValidationTexts ==
    { <<"Quality Score", ":", n>> : n \in {"49", "50", "64", "65", "74", "75", "150"} }
    \cup { <<>>,
           <<"Overall", "Quality Score", ":", "85">>,
           <<"quality score", ":", "70", "/", "100">>,
           <<"QUALITY SCORE", "40", NL, "REVISE">>,
           <<"Quality Score", ":", NL, "PASS">>,
           <<"REVISE">>,
           <<"APPROVE", NL, "REVISE">> }

TextsOf(action) == IF action = "validate" THEN ValidationTexts ELSE PlainTexts

\* what client.chat.completions.create can do for a tool call; the usage
\* counters add up, completion_tokens is the length of the content
ApiOutcomes(action) ==
    { [ok |-> FALSE, content |-> NoneText, latency_ms |-> l,
       prompt_tokens |-> 0, completion_tokens |-> 0, total_tokens |-> 0]
        : l \in 1..MaxLatency }
    \cup { [ok |-> TRUE, content |-> NoneText, latency_ms |-> l,
            prompt_tokens |-> 1, completion_tokens |-> 0, total_tokens |-> 1]
        : l \in 1..MaxLatency }
    \cup { [ok |-> TRUE, content |-> SomeText(t), latency_ms |-> l,
            prompt_tokens |-> p, completion_tokens |-> Len(t),
            total_tokens |-> p + Len(t)]
        : t \in TextsOf(action), l \in 1..MaxLatency, p \in 1..MaxTokens }

----------------------------------------------------------------------------
(* The workflow: orchestrate_agentic_workflow *)

\* variant: the minor refinement has no tool
available_tools_NoMinor ==
    [a \in {"research", "analyze", "validate", "refine_analysis"} |->
        CASE a = "research" -> "researcher"
          [] a = "analyze" -> "analyzer"
          [] a = "validate" -> "validator"
          [] a = "refine_analysis" -> "analyzer_refinement"]

\* the keys of self.available_tools and the role each tool calls
available_tools ==
    [a \in {"research", "analyze", "validate", "refine_analysis", "refine_minor"} |->
        CASE a = "research" -> "researcher"
          [] a = "analyze" -> "analyzer"
          [] a = "validate" -> "validator"
          [] a = "refine_analysis" -> "analyzer_refinement"
          [] a = "refine_minor" -> "analyzer_minor_refine"]

StageNames == {"research", "analyze", "refine_analysis", "refine_minor", "validation"}

\* the results dict as created before the loop; status is "not_started"
\* until the dict exists.  A key added after the loop is <<>> while the dict
\* lacks it and <<v>> once it holds v.
NewResults ==
    [status |-> "in_progress",
     reason |-> None,
     failed_action |-> None,
     stages |-> [n \in StageNames |-> <<>>],
     action_sequence |-> <<>>,
     agentic |-> TRUE,
     metrics |-> [total_latency_ms |-> 0, total_tokens |-> 0,
                  stages_completed |-> 0, refinement_loops |-> 0,
                  total_attempts |-> <<>>],
     final_quality_score |-> <<>>,
     goal_achieved |-> <<>>]

RejectedResults(error_msg) ==
    [NewResults EXCEPT !.status = "rejected", !.reason = error_msg,
                       !.agentic = FALSE]

\* the condition of the while loop
LoopCondition(s) == s.attempts < s.max_attempts

\* variant: the increment is forgotten
IncrementAttempts_Forgotten(s) == s

\* state.attempts += 1
IncrementAttempts(s) == [s EXCEPT !.attempts = @ + 1]

\* the reason prepared before the tool runs
PreReason(s, thr) ==
    IF s.research_output = NoneText THEN <<"No research yet">>
    ELSE IF s.analysis_output = NoneText THEN <<"Research complete">>
    ELSE IF s.validation_output = NoneText THEN <<"Analysis complete">>
    ELSE IF s.quality_score < thr THEN <<"below threshold", s.quality_score, thr>>
    ELSE <<"meets threshold", s.quality_score>>

\* variant: a failed call does not leave the loop
AfterResponse_NoBreak(response) == "loop"

\* where the loop goes after a tool returned
AfterResponse(response) == IF ~response.success THEN "final" ELSE "loop"

\* variant: no validation achieves the goal
ValidateGoal_Never(s, thr) == FALSE

\* variant: every validation achieves the goal
ValidateGoal_Always(s, thr) == TRUE

\* goal_achieved as the validate branch leaves it
ValidateGoal(s, thr) ==
    LET s1 == IF s.quality_score >= thr THEN [s EXCEPT !.goal_achieved = TRUE] ELSE s
    IN IF should_retry(s1, s1.quality_score, thr) THEN FALSE ELSE TRUE

StageEntry(response, s) ==
    <<[response |-> response.content, latency_ms |-> response.latency_ms,
       tokens |-> response.token_usage, success |-> response.success,
       attempt |-> s.attempts]>>

\* variant: the budget test is strict
FinalStatus_StrictBudget(s, status) ==
    IF s.goal_achieved THEN "completed"
    ELSE IF s.attempts > s.max_attempts THEN "max_attempts_reached"
    ELSE status

\* variant: the terminal resolution is left out
FinalStatus_KeepsStatus(s, status) == status

\* status after the loop
FinalStatus(s, status) ==
    IF s.goal_achieved THEN "completed"
    ELSE IF s.attempts >= s.max_attempts THEN "max_attempts_reached"
    ELSE status

\* variant: a rejected query is not returned
AfterBoundary_NoReturn(is_valid) == "loop"

\* where the workflow goes after the boundary check
AfterBoundary(is_valid) == IF ~is_valid THEN "done" ELSE "loop"

\* variant: only the major refinement is counted
CountsAsRefinement_OnlyMajor(action) == action = "refine_analysis"

\* 'refine' in next_action, for the actions of the analysis branch
CountsAsRefinement(action) == action \in {"refine_analysis", "refine_minor"}

\* variant: every entry carries the score
QualityAfter_Always(action, s) == <<s.quality_score>>

\* quality_after of an action_sequence entry
QualityAfter(action, s) ==
    IF action = "validate" THEN <<s.quality_score>> ELSE <<>>

\* the locals of one call of orchestrate_agentic_workflow and its position
Frame(s, r, p, a, why) ==
    [state |-> s, results |-> r, pc |-> p, next_action |-> a, reason |-> why]

\* the frame after the boundary check answered resp: the rejection is
\* returned, or state and results are constructed
Started(w, resp) ==
    LET verdict == _check_boundaries(resp)
        is_valid == verdict[1]
        error_msg == verdict[2]
    IN [w EXCEPT !.results = IF ~is_valid THEN RejectedResults(error_msg)
                             ELSE NewResults,
                 !.state = IF ~is_valid THEN @ ELSE AgentState,
                 !.pc = AfterBoundary(is_valid)]

\* the frame after the loop test, attempts += 1, the planner's decision, the
\* append to action_history and the choice of the tool
Decided(w, thr) ==
    IF ~LoopCondition(w.state) THEN [w EXCEPT !.pc = "final"]
    ELSE LET s1 == IncrementAttempts(w.state)
             d == decide_next_action(s1, thr)
         IN IF d.action = None
            THEN [w EXCEPT !.state = d.state, !.next_action = d.action,
                           !.pc = "final"]
            ELSE [w EXCEPT !.state = [d.state EXCEPT
                                         !.action_history = Append(@, d.action)],
                           !.next_action = d.action,
                           !.reason = PreReason(d.state, thr),
                           !.pc = IF d.action \notin DOMAIN available_tools
                                  THEN "final" ELSE "awaiting"]

\* the frame after the tool of next_action returned response
Updated(w, thr, response) ==
    LET act == w.next_action
        s1 == IF act = "research"
                 THEN [w.state EXCEPT !.research_output = SomeText(response.content)]
              ELSE IF act \in {"analyze", "refine_analysis", "refine_minor"}
                 THEN [w.state EXCEPT !.analysis_output = SomeText(response.content)]
              ELSE IF act = "validate"
                 THEN LET v == [w.state EXCEPT
                                  !.validation_output = SomeText(response.content),
                                  !.quality_score = _extract_quality_score(response.content)]
                      IN [v EXCEPT !.goal_achieved = ValidateGoal(v, thr)]
              ELSE w.state
        r1 == IF act = "research"
                 THEN [w.results EXCEPT !.stages["research"] = StageEntry(response, w.state)]
              ELSE IF act \in {"analyze", "refine_analysis", "refine_minor"}
                 THEN [w.results EXCEPT
                         !.stages[act] = StageEntry(response, w.state),
                         !.metrics.refinement_loops =
                            IF CountsAsRefinement(act) THEN @ + 1 ELSE @]
              ELSE IF act = "validate"
                 THEN [w.results EXCEPT
                         !.stages["validation"] =
                            <<[response |-> response.content,
                               latency_ms |-> response.latency_ms,
                               tokens |-> response.token_usage,
                               success |-> response.success,
                               quality_score |-> s1.quality_score,
                               attempt |-> w.state.attempts]>>]
              ELSE w.results
        why == IF act = "research"
                  THEN IF response.success THEN <<"Research completed successfully">>
                       ELSE <<"Research failed">>
               ELSE IF act \in {"refine_analysis", "refine_minor"}
                  THEN <<"Refinement completed">>
               ELSE IF act = "analyze" THEN <<"Analysis completed">>
               ELSE IF act = "validate"
                  THEN IF s1.quality_score >= thr
                       THEN <<"Validation complete, meets", s1.quality_score, thr>>
                       ELSE <<"Validation complete, below", s1.quality_score, thr>>
               ELSE w.reason
        r2 == [r1 EXCEPT !.action_sequence = Append(@,
                  [attempt |-> s1.attempts, action |-> act, reason |-> why,
                   quality_after |-> QualityAfter(act, s1)])]
        s2 == [s1 EXCEPT
                 !.total_latency_ms = @ + response.latency_ms,
                 !.total_tokens = @ + response.token_usage.total_tokens]
        r3 == IF ~response.success
                 THEN [r2 EXCEPT !.status = "failed", !.failed_action = act]
              ELSE r2
    IN [w EXCEPT !.state = s2, !.results = r3, !.reason = why,
                 !.pc = AfterResponse(response)]

\* the frame at the return: the final status and the summary fields
Finalized(w) ==
    [w EXCEPT !.results = [@ EXCEPT
                  !.status = FinalStatus(w.state, @),
                  !.metrics.total_latency_ms = w.state.total_latency_ms,
                  !.metrics.total_tokens = w.state.total_tokens,
                  !.metrics.stages_completed =
                      Cardinality({n \in StageNames : w.results.stages[n] # <<>>}),
                  !.metrics.total_attempts = <<w.state.attempts>>,
                  !.final_quality_score = <<w.state.quality_score>>,
                  !.goal_achieved = <<w.state.goal_achieved>>],
              !.pc = "done"]

\* the boundary check and the construction of state and results
CheckBoundariesStep ==
    /\ pc = "not_started"
    /\ \E resp \in BoundaryResponses :
         LET verdict == _check_boundaries(resp)
             w == Started(Frame(state, results, pc, next_action, reason), resp)
         IN /\ boundary' = [checks |-> boundary.checks + 1, resp |-> resp,
                            is_valid |-> verdict[1], error_msg |-> verdict[2]]
            /\ results' = w.results
            /\ state' = w.state
            /\ pc' = w.pc
    /\ UNCHANGED <<threshold, next_action, reason, iterations, planner_calls,
                   calls, arg, ret>>

\* one pass through the head of the loop, up to the await of the tool
LoopIteration ==
    /\ pc = "loop"
    /\ LET w == Decided(Frame(state, results, pc, next_action, reason), threshold)
       IN /\ state' = w.state
          /\ next_action' = w.next_action
          /\ reason' = w.reason
          /\ pc' = w.pc
          /\ IF LoopCondition(state)
             THEN /\ iterations' = iterations + 1
                  /\ planner_calls' = planner_calls + 1
             ELSE UNCHANGED <<iterations, planner_calls>>
          /\ calls' = IF w.pc = "awaiting"
                      THEN Append(calls,
                              [action |-> w.next_action,
                               role |-> available_tools[w.next_action],
                               attempt |-> w.state.attempts,
                               status |-> "pending",
                               tokens |-> 0, latency_ms |-> 0])
                      ELSE calls
    /\ UNCHANGED <<threshold, results, boundary, arg, ret>>

\* the awaited tool call returns
ToolReturns ==
    /\ pc = "awaiting"
    /\ \E out \in ApiOutcomes(next_action) :
         LET response == _execute_llm(out)
             w == Updated(Frame(state, results, pc, next_action, reason),
                          threshold, response)
         IN /\ state' = w.state
            /\ results' = w.results
            /\ reason' = w.reason
            /\ calls' = [calls EXCEPT ![Len(calls)] =
                            [@ EXCEPT !.status = IF response.success THEN "ok" ELSE "failed",
                                      !.tokens = response.token_usage.total_tokens,
                                      !.latency_ms = response.latency_ms]]
            /\ pc' = w.pc
    /\ UNCHANGED <<threshold, next_action, boundary, iterations, planner_calls,
                   arg, ret>>

\* variant: total_attempts counts the actions taken, not the iterations
Finalize_CountsActions ==
    /\ pc = "final"
    /\ results' = [results EXCEPT
                      !.status = FinalStatus(state, @),
                      !.metrics.total_latency_ms = state.total_latency_ms,
                      !.metrics.total_tokens = state.total_tokens,
                      !.metrics.stages_completed =
                          Cardinality({n \in StageNames : results.stages[n] # <<>>}),
                      !.metrics.total_attempts = <<Len(state.action_history)>>,
                      !.final_quality_score = <<state.quality_score>>,
                      !.goal_achieved = <<state.goal_achieved>>]
    /\ pc' = "done"
    /\ UNCHANGED <<threshold, state, next_action, reason, boundary, iterations,
                   planner_calls, calls, arg, ret>>

\* the final status and the summary fields
Finalize ==
    /\ pc = "final"
    /\ LET w == Finalized(Frame(state, results, pc, next_action, reason))
       IN /\ results' = w.results
          /\ pc' = w.pc
    /\ UNCHANGED <<threshold, state, next_action, reason, boundary, iterations,
                   planner_calls, calls, arg, ret>>

Idle == [done |-> FALSE]

Init ==
    /\ threshold \in Thresholds
    /\ state = AgentState
    /\ results = [NewResults EXCEPT !.status = "not_started"]
    /\ pc = "not_started"
    /\ next_action = None
    /\ reason = <<>>
    /\ boundary = [checks |-> 0, resp |-> NoCall,
                   is_valid |-> TRUE, error_msg |-> None]
    /\ iterations = 0
    /\ planner_calls = 0
    /\ calls = <<>>
    /\ arg = Idle
    /\ ret = Idle

Next ==
    \/ CheckBoundariesStep
    \/ LoopIteration
    \/ ToolReturns
    \/ Finalize

Spec == Init /\ [][Next]_vars

\* every capability call returns and the coroutine runs on
FairSpec == Spec /\ WF_vars(Next)

----------------------------------------------------------------------------
(* The planner on its own: decide_next_action applied to any AgentState *)

PlanScores == {0, 40, 49, 50, 59, 60, 64, 65, 74, 75, 89, 90, 100}

Slots == {NoneText, SomeText(<<>>), SomeText(<<"text">>)}

PlannerInputs ==
    { [state |-> [AgentState EXCEPT !.attempts = a, !.goal_achieved = g,
                                    !.research_output = r, !.analysis_output = an,
                                    !.validation_output = v, !.quality_score = q],
       thr |-> t, done |-> TRUE]
        : a \in 0..PlanAttempts, g \in BOOLEAN, r \in Slots, an \in Slots,
          v \in Slots, q \in PlanScores, t \in Thresholds }

PlannerInit ==
    /\ threshold = DefaultThreshold
    /\ state = AgentState
    /\ results = [NewResults EXCEPT !.status = "not_started"]
    /\ pc = "planner"
    /\ next_action = None
    /\ reason = <<>>
    /\ boundary = [checks |-> 0, resp |-> NoCall,
                   is_valid |-> TRUE, error_msg |-> None]
    /\ iterations = 0
    /\ planner_calls = 0
    /\ calls = <<>>
    /\ arg \in PlannerInputs
    /\ ret = Idle

ApplyDecide ==
    /\ pc = "planner"
    /\ ~ret.done
    /\ LET d == decide_next_action(arg.state, arg.thr)
       IN ret' = [done |-> TRUE, action |-> d.action, state |-> d.state]
    /\ UNCHANGED <<threshold, state, results, pc, next_action, reason, boundary,
                   iterations, planner_calls, calls, arg>>

PlannerNext == ApplyDecide

PlannerSpec == PlannerInit /\ [][PlannerNext]_vars

----------------------------------------------------------------------------
(* The other functions on their own *)

ExecTotal == 3
ExtractLen == 3

\* a unit specification: the workflow is not running, arg is drawn from inputs
UnitInit(p, inputs) ==
    /\ threshold = DefaultThreshold
    /\ state = AgentState
    /\ results = [NewResults EXCEPT !.status = "not_started"]
    /\ pc = p
    /\ next_action = None
    /\ reason = <<>>
    /\ boundary = [checks |-> 0, resp |-> NoCall,
                   is_valid |-> TRUE, error_msg |-> None]
    /\ iterations = 0
    /\ planner_calls = 0
    /\ calls = <<>>
    /\ arg \in inputs
    /\ ret = Idle

\* should_retry applied to any attempts, score and threshold
RetryInputs ==
    { [state |-> [AgentState EXCEPT !.attempts = a], score |-> q, thr |-> t,
       done |-> TRUE]
        : a \in 0..PlanAttempts, q \in PlanScores, t \in Thresholds }

RetryInit == UnitInit("retry", RetryInputs)

ApplyShouldRetry ==
    /\ pc = "retry"
    /\ ~ret.done
    /\ ret' = [done |-> TRUE, value |-> should_retry(arg.state, arg.score, arg.thr)]
    /\ UNCHANGED <<threshold, state, results, pc, next_action, reason, boundary,
                   iterations, planner_calls, calls, arg>>

RetryNext == ApplyShouldRetry

RetrySpec == RetryInit /\ [][RetryNext]_vars

\* _execute_llm applied to anything the API can do, and the token total of
\* the workflow after the response is added to it
ExecInputs ==
    { [out |-> o, total_tokens |-> n, done |-> TRUE]
        : o \in UNION { ApiOutcomes(a) : a \in DOMAIN available_tools },
          n \in 0..ExecTotal }

ExecInit == UnitInit("exec", ExecInputs)

ApplyExecute ==
    /\ pc = "exec"
    /\ ~ret.done
    /\ LET response == _execute_llm(arg.out)
       IN ret' = [done |-> TRUE, response |-> response,
                  total_tokens |-> arg.total_tokens
                                     + response.token_usage.total_tokens]
    /\ UNCHANGED <<threshold, state, results, pc, next_action, reason, boundary,
                   iterations, planner_calls, calls, arg>>

ExecNext == ApplyExecute

ExecSpec == ExecInit /\ [][ExecNext]_vars

\* _extract_quality_score applied to any short text
ExtractTokens ==
    {"Quality Score", "quality score", NL, "150", "70", "PASS", "APPROVE", "REVISE"}

ExtractInputs ==
    { [text |-> t, done |-> TRUE]
        : t \in UNION { [1..k -> ExtractTokens] : k \in 0..ExtractLen } }

ExtractInit == UnitInit("extract", ExtractInputs)

ApplyExtract ==
    /\ pc = "extract"
    /\ ~ret.done
    /\ ret' = [done |-> TRUE, score |-> _extract_quality_score(arg.text)]
    /\ UNCHANGED <<threshold, state, results, pc, next_action, reason, boundary,
                   iterations, planner_calls, calls, arg>>

ExtractNext == ApplyExtract

ExtractSpec == ExtractInit /\ [][ExtractNext]_vars

----------------------------------------------------------------------------
(* A workflow run to its end on given capability responses *)

\* the frame of a call that has not started
NewFrame ==
    Frame(AgentState, [NewResults EXCEPT !.status = "not_started"],
          "not_started", None, <<>>)

\* the frame reached from w when the tool calls return the outcomes of
\* script one after the other: the return, or the await the script ends in
RECURSIVE Run(_, _, _)
Run(w, script, thr) ==
    IF w.pc = "loop" THEN Run(Decided(w, thr), script, thr)
    ELSE IF w.pc = "awaiting" /\ script # <<>>
         THEN Run(Updated(w, thr, _execute_llm(Head(script))), Tail(script), thr)
    ELSE IF w.pc = "final" THEN Run(Finalized(w), script, thr)
    ELSE w

\* the workflow run alone
Solo(resp, script, thr) == Run(Started(NewFrame, resp), script, thr)

----------------------------------------------------------------------------
(* Two workflows on one service instance *)

Workflows == {1, 2}

\* variant: the AgentState is kept on the service instance
StateOf_Instance(i) == 1

\* the AgentState that call i works on: the local variable of that call
StateOf(i) == i

PairAnswers == { <<"Y", "E", "S">>, <<"N", "O">> }

PairBoundaryResponses ==
    { r \in BoundaryResponses :
        ~r.ok \/ (r.content # NoneText /\ r.content[1] \in PairAnswers) }

PairTexts(action) ==
    IF action = "validate"
    THEN { <<"Quality Score", ":", n>> : n \in {"49", "64", "74", "75"} }
    ELSE { <<"text">> }

\* the outcomes of a tool call in the two-workflow specification: a failure
\* or one of the texts, with one unit of latency and a prompt of one token
PairOutcomes(action) ==
    { o \in ApiOutcomes(action) :
        /\ o.latency_ms = 1
        /\ o.prompt_tokens <= 1
        /\ ~o.ok \/ (o.content # NoneText /\ o.content[1] \in PairTexts(action)) }

\* the calls have their own locals; they share the service, that is the
\* planner's threshold, the tools and the client.  arg.frames[i] holds the
\* locals of call i other than state, the answer of its boundary call and
\* the outcomes of its tool calls so far; arg.store holds the AgentStates.
PairInputs ==
    { [frames |-> [i \in Workflows |->
                      [results |-> NewFrame.results, pc |-> NewFrame.pc,
                       next_action |-> NewFrame.next_action,
                       reason |-> NewFrame.reason,
                       resp |-> NoCall, script |-> <<>>]],
       store |-> [i \in Workflows |-> AgentState],
       overlapped |-> FALSE] }

PairInit == UnitInit("pair", PairInputs)

PairLocal(i) ==
    Frame(arg.store[StateOf(i)], arg.frames[i].results, arg.frames[i].pc,
          arg.frames[i].next_action, arg.frames[i].reason)

Suspended(i) == arg.frames[i].pc \in {"loop", "awaiting", "final"}

\* call i runs on to frame w; overlapped records that another call was
\* suspended in the middle of its run at that moment
PairStep(i, w, resp, script) ==
    /\ arg' = [frames |-> [arg.frames EXCEPT ![i] =
                              [results |-> w.results, pc |-> w.pc,
                               next_action |-> w.next_action,
                               reason |-> w.reason,
                               resp |-> resp, script |-> script]],
               store |-> [arg.store EXCEPT ![StateOf(i)] = w.state],
               overlapped |-> arg.overlapped
                                \/ \E j \in Workflows \ {i} : Suspended(j)]
    /\ UNCHANGED <<threshold, state, results, pc, next_action, reason, boundary,
                   iterations, planner_calls, calls, ret>>

PairStart(i) ==
    /\ pc = "pair"
    /\ arg.frames[i].pc = "not_started"
    /\ \E resp \in PairBoundaryResponses :
          PairStep(i, Started(PairLocal(i), resp), resp, <<>>)

PairDecide(i) ==
    /\ pc = "pair"
    /\ arg.frames[i].pc = "loop"
    /\ PairStep(i, Decided(PairLocal(i), threshold),
                arg.frames[i].resp, arg.frames[i].script)

PairReturn(i) ==
    /\ pc = "pair"
    /\ arg.frames[i].pc = "awaiting"
    /\ \E out \in PairOutcomes(arg.frames[i].next_action) :
          PairStep(i, Updated(PairLocal(i), threshold, _execute_llm(out)),
                   arg.frames[i].resp, Append(arg.frames[i].script, out))

PairFinalize(i) ==
    /\ pc = "pair"
    /\ arg.frames[i].pc = "final"
    /\ PairStep(i, Finalized(PairLocal(i)),
                arg.frames[i].resp, arg.frames[i].script)

\* the event loop resumes either call at each of its awaits
PairNext ==
    \E i \in Workflows :
        \/ PairStart(i)
        \/ PairDecide(i)
        \/ PairReturn(i)
        \/ PairFinalize(i)

PairSpec == PairInit /\ [][PairNext]_vars

----------------------------------------------------------------------------
(* The loop after a first validation, for any attempt budget *)

RestartBudget == 7

\* the frame after research, analyze and a validation answering v have
\* returned, in a workflow whose AgentState has max_attempts = m
AfterValidation(v, m, thr) ==
    LET ok(t) == [ok |-> TRUE, content |-> SomeText(t), latency_ms |-> 1,
                  prompt_tokens |-> 1, completion_tokens |-> Len(t),
                  total_tokens |-> 1 + Len(t)]
        w == Started(NewFrame, NoCall)
    IN Run([w EXCEPT !.state.max_attempts = m],
           <<ok(<<"text">>), ok(<<"text">>), ok(v)>>, thr)

RestartInputs ==
    { [w |-> AfterValidation(v, m, t), thr |-> t, done |-> TRUE]
        : v \in ValidationTexts, m \in DefaultMaxAttempts..RestartBudget,
          t \in Thresholds }

RestartInit == UnitInit("restart", RestartInputs)

RestartStep(w) ==
    /\ arg' = [arg EXCEPT !.w = w]
    /\ UNCHANGED <<threshold, state, results, pc, next_action, reason, boundary,
                   iterations, planner_calls, calls, ret>>

RestartDecide ==
    /\ pc = "restart"
    /\ arg.w.pc = "loop"
    /\ RestartStep(Decided(arg.w, arg.thr))

RestartReturn ==
    /\ pc = "restart"
    /\ arg.w.pc = "awaiting"
    /\ \E out \in ApiOutcomes(arg.w.next_action) :
          RestartStep(Updated(arg.w, arg.thr, _execute_llm(out)))

RestartFinalize ==
    /\ pc = "restart"
    /\ arg.w.pc = "final"
    /\ RestartStep(Finalized(arg.w))

RestartNext ==
    \/ RestartDecide
    \/ RestartReturn
    \/ RestartFinalize

RestartSpec == RestartInit /\ [][RestartNext]_vars

----------------------------------------------------------------------------
(* Properties of the workflow *)

CallFailed(i) == calls[i].status = "failed"

\* C1: under fair scheduling, where every capability call returns, the
\* workflow reaches its return, and the body of the loop is never entered
\* more than max_attempts times.
C1_TerminatesWithinMaxAttempts ==
    /\ <>(pc = "done")
    /\ [](iterations <= state.max_attempts)

C1_Witness ==
    /\ pc = "done"
    /\ iterations = state.max_attempts
    /\ \E i \in 1..Len(calls) : calls[i].action = "validate"

\* C2: attempts stays within 0..max_attempts, never decreases, grows by
\* exactly one in each loop iteration and in no other step, and no action is
\* dispatched in or after the step in which attempts is max_attempts.
C2_AttemptsBounded ==
    [][ /\ state.attempts \in 0..state.max_attempts
        /\ state'.attempts \in 0..state'.max_attempts
        /\ state'.attempts \in {state.attempts, state.attempts + 1}
        /\ (iterations' = iterations + 1) <=> (state'.attempts = state.attempts + 1)
        /\ iterations' \in {iterations, iterations + 1}
        /\ state'.attempts = state'.max_attempts =>
              /\ Len(calls') = Len(calls)
              /\ state'.action_history = state.action_history
              /\ pc' # "awaiting" ]_vars

C2_Witness ==
    /\ state.attempts = state.max_attempts
    /\ Len(state.action_history) = state.max_attempts - 1
    /\ iterations = state.max_attempts
    /\ pc = "done"

\* C3 (as claimed): when a capability call of the loop failed, the status
\* returned is 'failed'.
C3_FailedIsFinal ==
    (pc = "done" /\ \E i \in 1..Len(calls) : CallFailed(i))
        => results.status = "failed"

\* C4: a failed call of action X at attempt k is the last call: the planner
\* has been asked k times and is not asked again, the loop is left,
\* failed_action is X, the k-th and last entry of action_sequence is X at
\* attempt k, total_attempts is k, and a failed analyze returns 'failed'.
C4_FailureStopsLoop ==
    \A i \in 1..Len(calls) :
        CallFailed(i) =>
            LET X == calls[i].action
                k == calls[i].attempt
            IN /\ i = Len(calls)
               /\ planner_calls = k
               /\ iterations = k
               /\ state.attempts = k
               /\ pc \in {"final", "done"}
               /\ results.failed_action = X
               /\ Len(results.action_sequence) = k
               /\ results.action_sequence[k].action = X
               /\ results.action_sequence[k].attempt = k
               /\ state.action_history[Len(state.action_history)] = X
               /\ pc = "done" => results.metrics.total_attempts = <<k>>
               /\ (pc = "done" /\ X = "analyze") => results.status = "failed"

C4_Witness ==
    /\ pc = "done"
    /\ Len(calls) = 2
    /\ CallFailed(2)
    /\ calls[2].action = "analyze"

\* C5: goal_achieved implies quality_score >= threshold and an executed
\* validate; a 'completed' result has final_quality_score >= threshold.
C5_GoalImpliesQuality ==
    /\ state.goal_achieved =>
          /\ state.quality_score >= threshold
          /\ \E i \in 1..Len(results.action_sequence) :
                results.action_sequence[i].action = "validate"
    /\ results.status = "completed" =>
          /\ pc = "done"
          /\ results.final_quality_score # <<>>
          /\ results.final_quality_score[1] >= threshold

C5_Witness ==
    /\ results.status = "completed"
    /\ results.final_quality_score[1] >= threshold
    /\ ~ \E i \in 1..Len(calls) : CallFailed(i)

\* C6: a query the boundary checker disallows is returned as 'rejected' with
\* the fixed reason after exactly one check: no loop iteration, no planner
\* call, attempts 0 and no tool call.
C6_RejectedBeforeLoop ==
    (boundary.checks > 0 /\ ~boundary.is_valid) =>
        /\ pc = "done"
        /\ results.status = "rejected"
        /\ results.reason = RejectionReason
        /\ boundary.checks = 1
        /\ iterations = 0
        /\ planner_calls = 0
        /\ state.attempts = 0
        /\ state.action_history = <<>>
        /\ calls = <<>>

C6_Witness ==
    /\ results.status = "rejected"
    /\ boundary.checks = 1
    /\ ~boundary.is_valid

\* the answer has y, e, s in a row, in either case
SaysYes(resp) ==
    /\ resp.ok
    /\ resp.content # NoneText
    /\ LET a == resp.content[1]
       IN \E i \in 1..(Len(a) - 2) :
            /\ a[i] \in {"y", "Y"}
            /\ a[i + 1] \in {"e", "E"}
            /\ a[i + 2] \in {"s", "S"}

\* C7: the boundary checker disallows exactly when the call succeeded and
\* the answer contains 'yes' in any case, then with the fixed reason; in
\* every other case it allows with no reason, and the loop starts with
\* research.
C7_BoundaryVerdict ==
    boundary.checks > 0 =>
        /\ ~boundary.is_valid <=> SaysYes(boundary.resp)
        /\ ~boundary.is_valid => boundary.error_msg = RejectionReason
        /\ boundary.is_valid =>
              /\ boundary.error_msg = None
              /\ pc # "not_started"
              /\ results.status # "rejected"
              /\ iterations >= 1 =>
                    /\ state.action_history # <<>>
                    /\ state.action_history[1] = "research"
                    /\ calls[1].action = "research"

C7_Witness ==
    /\ boundary.checks = 1
    /\ ~boundary.resp.ok
    /\ boundary.is_valid
    /\ Len(calls) >= 1
    /\ calls[1].action = "research"

----------------------------------------------------------------------------
(* Properties of the planner *)

\* the decision table of the planner, row by row
TableRows(s, thr) ==
    << [cond |-> s.attempts >= s.max_attempts, action |-> None],
       [cond |-> s.goal_achieved /\ s.quality_score >= thr, action |-> None],
       [cond |-> s.research_output = NoneText, action |-> "research"],
       [cond |-> s.analysis_output = NoneText, action |-> "analyze"],
       [cond |-> s.validation_output = NoneText, action |-> "validate"],
       [cond |-> s.quality_score < thr /\ s.quality_score < 50, action |-> "research"],
       [cond |-> s.quality_score < thr /\ s.quality_score < 65,
        action |-> "refine_analysis"],
       [cond |-> s.quality_score < thr, action |-> "refine_minor"],
       [cond |-> TRUE, action |-> None] >>

FirstMatch(rows) ==
    rows[CHOOSE i \in 1..Len(rows) :
            rows[i].cond /\ \A j \in 1..(i - 1) : ~rows[j].cond].action

\* C8: decide_next_action returns the action of the first matching row of
\* the decision table.
C8_DecisionTable ==
    (pc = "planner" /\ ret.done) =>
        ret.action = FirstMatch(TableRows(arg.state, arg.thr))

C8_Witness ==
    /\ pc = "planner"
    /\ ret.done
    /\ ret.action = "refine_minor"
    /\ arg.state.quality_score = 65

\* the planner falls through to its last row
FallsThrough(s, thr) ==
    /\ s.attempts < s.max_attempts
    /\ ~s.goal_achieved
    /\ s.research_output # NoneText
    /\ s.analysis_output # NoneText
    /\ s.validation_output # NoneText
    /\ s.quality_score >= thr

\* C9 (as claimed): decide_next_action leaves every field of the state
\* unchanged.
C9_PlannerIsPure ==
    (pc = "planner" /\ ret.done) => ret.state = arg.state

\* C9 (amended): decide_next_action changes no field other than
\* goal_achieved, which it sets to true exactly when it falls through to the
\* last row; in every other state it leaves the state unchanged.
C9_PlannerFrame ==
    (pc = "planner" /\ ret.done) =>
        /\ ret.state = [arg.state EXCEPT !.goal_achieved =
                            IF FallsThrough(arg.state, arg.thr) THEN TRUE ELSE @]
        /\ FallsThrough(arg.state, arg.thr) => ret.action = None

C9_Witness ==
    /\ pc = "planner"
    /\ ret.done
    /\ ret.state # arg.state
    /\ ret.state.goal_achieved

\* the planner stops in one of its first two rows
StopsEarly(s, thr) ==
    \/ s.attempts >= s.max_attempts
    \/ s.goal_achieved /\ s.quality_score >= thr

\* C10 (as claimed): with research_output unset the action is research.
C10_ResearchFirst ==
    (pc = "planner" /\ ret.done /\ arg.state.research_output = NoneText)
        => ret.action = "research"

\* C10 (amended): with research_output unset the action is research unless
\* the planner stops (attempts >= max_attempts, or goal_achieved with
\* quality_score >= threshold); it is never analyze, validate or a refinement.
C10_ResearchOrStop ==
    (pc = "planner" /\ ret.done /\ arg.state.research_output = NoneText) =>
        /\ ret.action \in {"research", None}
        /\ ret.action = None <=> StopsEarly(arg.state, arg.thr)

C10_Witness ==
    /\ pc = "planner"
    /\ ret.done
    /\ arg.state.research_output = NoneText
    /\ arg.state.analysis_output # NoneText
    /\ ret.action = "research"

----------------------------------------------------------------------------
(* Scenarios of the workflow *)

NoCallFailed == \A i \in 1..Len(calls) : ~CallFailed(i)

ActionsOf(seq) == [i \in 1..Len(seq) |-> seq[i].action]

\* the first validation has returned and this is the score it yielded
FirstValidation(q) ==
    /\ Len(results.action_sequence) >= 3
    /\ results.action_sequence[3].action = "validate"
    /\ results.action_sequence[3].quality_after = <<q>>

\* the first validation has returned
HasFirstValidation ==
    /\ Len(results.action_sequence) >= 3
    /\ results.action_sequence[3].action = "validate"

\* the score it yielded
FirstScore == results.action_sequence[3].quality_after[1]

\* research, analyze and validate succeeded and the validation scored q
ThreeStagesOk(q) ==
    /\ FirstValidation(q)
    /\ \A i \in 1..3 : calls[i].status = "ok"

ScenarioAText == <<"Overall", "Quality Score", ":", "85">>

\* what scenario A returns, but for total_attempts
ScenarioAResult(q) ==
    /\ results.status = "completed"
    /\ results.final_quality_score = <<q>>
    /\ results.metrics.refinement_loops = 0
    /\ ActionsOf(results.action_sequence) = <<"research", "analyze", "validate">>
    /\ results.stages["validation"][1].response = ScenarioAText =>
          results.final_quality_score = <<85>>

\* C11 (as claimed): after three successful stages with a first score at or
\* above the threshold the result is completed with that score, no
\* refinement, the three actions and total_attempts = 3.
C11_ScenarioA ==
    (pc = "done" /\ HasFirstValidation) =>
        LET q == FirstScore
        IN (ThreeStagesOk(q) /\ q >= threshold) =>
              /\ ScenarioAResult(q)
              /\ results.metrics.total_attempts = <<3>>

\* C11 (amended): the same, with total_attempts = 4: the fourth iteration
\* is the one in which the planner stops.
C11_ScenarioAFourAttempts ==
    (pc = "done" /\ HasFirstValidation) =>
        LET q == FirstScore
        IN (ThreeStagesOk(q) /\ q >= threshold) =>
              /\ ScenarioAResult(q)
              /\ results.metrics.total_attempts = <<4>>
              /\ iterations = 4

C11_Witness ==
    /\ pc = "done"
    /\ threshold = 75
    /\ ThreeStagesOk(85)
    /\ results.stages["validation"][1].response = ScenarioAText
    /\ results.status = "completed"
    /\ results.metrics.total_attempts = <<4>>

\* the fourth action has returned
FourthReturned == Len(calls) >= 4 /\ calls[4].status # "pending"

\* C12 (as claimed): a first validation of 0.70 under a threshold of 0.75 is
\* followed by refine_analysis, and refinement_loops becomes 1.
C12_ScenarioC ==
    (threshold = 75 /\ ThreeStagesOk(70) /\ iterations >= 4) =>
        /\ Len(calls) >= 4
        /\ calls[4].action = "refine_analysis"
        /\ results.metrics.refinement_loops = IF FourthReturned THEN 1 ELSE 0

\* C12 (amended): a first validation of 0.70 under a threshold of 0.75 is
\* followed by refine_minor, and refinement_loops becomes 1.
C12_ScenarioCMinor ==
    (threshold = 75 /\ ThreeStagesOk(70) /\ iterations >= 4) =>
        /\ Len(calls) >= 4
        /\ calls[4].action = "refine_minor"
        /\ results.metrics.refinement_loops = IF FourthReturned THEN 1 ELSE 0

C12_Witness ==
    /\ threshold = 75
    /\ ThreeStagesOk(70)
    /\ FourthReturned
    /\ calls[4].action = "refine_minor"
    /\ results.metrics.refinement_loops = 1

CountOf(seq, a) == Cardinality({i \in 1..Len(seq) : seq[i] = a})

\* C13: a first validation below 0.5 and below the threshold is followed by
\* research, and when no call fails the final action_history has research
\* exactly twice.
C13_ScenarioB ==
    (HasFirstValidation /\ iterations >= 4) =>
        LET q == FirstScore
        IN (ThreeStagesOk(q) /\ q < RestartCutoff /\ q < threshold) =>
              /\ Len(calls) >= 4
              /\ calls[4].action = "research"
              /\ state.action_history[4] = "research"
              /\ (pc = "done" /\ NoCallFailed) =>
                    CountOf(state.action_history, "research") = 2

C13_Witness ==
    /\ pc = "done"
    /\ NoCallFailed
    /\ ThreeStagesOk(40)
    /\ threshold = 75
    /\ state.action_history = <<"research", "analyze", "validate", "research">>

\* C14: when no call fails and the score stays below the threshold the
\* workflow returns max_attempts_reached with total_attempts = 5 and
\* goal_achieved false.
C14_ScenarioF ==
    (pc = "done" /\ boundary.is_valid /\ NoCallFailed
        /\ state.quality_score < threshold) =>
        /\ results.status = "max_attempts_reached"
        /\ results.metrics.total_attempts = <<DefaultMaxAttempts>>
        /\ results.goal_achieved = <<FALSE>>
        /\ Len(calls) = DefaultMaxAttempts - 1

C14_Witness ==
    /\ pc = "done"
    /\ NoCallFailed
    /\ results.status = "max_attempts_reached"
    /\ results.metrics.total_attempts = <<5>>
    /\ state.validation_output # NoneText

IsRefine(a) == a \in {"refine_analysis", "refine_minor"}

\* C15 (as claimed): a refinement that succeeded while the attempt budget
\* is not used up is followed by a validate.
C15_RefinementIsRevalidated ==
    \A i \in 1..Len(calls) :
        (pc = "done" /\ IsRefine(calls[i].action) /\ calls[i].status = "ok"
            /\ calls[i].attempt < state.max_attempts) =>
            \E j \in (i + 1)..Len(calls) : calls[j].action = "validate"

\* C16: the status returned is rejected, completed, failed or
\* max_attempts_reached, never in_progress, and completed only with
\* goal_achieved true.
C16_TerminalStatus ==
    pc = "done" =>
        /\ results.status \in {"rejected", "completed", "failed", "max_attempts_reached"}
        /\ results.status = "completed" => results.goal_achieved = <<TRUE>>
        /\ results.status = "rejected" <=> ~boundary.is_valid

C16_Witness ==
    /\ pc = "done"
    /\ results.status = "max_attempts_reached"
    /\ results.goal_achieved = <<FALSE>>

----------------------------------------------------------------------------
(* Properties of should_retry, the action frame, the client and the extractor *)

\* C17: should_retry is true exactly when the score is below the threshold
\* and attempts is below max_attempts.
C17_ShouldRetry ==
    (pc = "retry" /\ ret.done) =>
        (ret.value <=> (arg.score < arg.thr
                          /\ arg.state.attempts < arg.state.max_attempts))

C17_Witness ==
    /\ pc = "retry"
    /\ ret.done
    /\ ret.value
    /\ arg.state.attempts = arg.state.max_attempts - 1
    /\ arg.score = 74
    /\ arg.thr = 75

\* C18: the return of research changes research_output only; the return of
\* analyze or of a refinement changes analysis_output only; the return of
\* validate changes validation_output, quality_score (the extracted score)
\* and goal_achieved only; no other step changes a slot or quality_score,
\* and quality_score is 0 while validation_output is unset.
C18_ActionFrame ==
    [][ /\ (pc = "awaiting" /\ next_action = "research") =>
              /\ state'.research_output # NoneText
              /\ state'.analysis_output = state.analysis_output
              /\ state'.validation_output = state.validation_output
              /\ state'.quality_score = state.quality_score
              /\ state'.goal_achieved = state.goal_achieved
        /\ (pc = "awaiting" /\ next_action \in {"analyze", "refine_analysis", "refine_minor"}) =>
              /\ state'.analysis_output # NoneText
              /\ state'.research_output = state.research_output
              /\ state'.validation_output = state.validation_output
              /\ state'.quality_score = state.quality_score
              /\ state'.goal_achieved = state.goal_achieved
        /\ (pc = "awaiting" /\ next_action = "validate") =>
              /\ state'.validation_output # NoneText
              /\ state'.quality_score = results'.stages["validation"][1].quality_score
              /\ state'.quality_score
                    = _extract_quality_score(state'.validation_output[1])
              /\ state'.research_output = state.research_output
              /\ state'.analysis_output = state.analysis_output
        /\ pc # "awaiting" =>
              /\ state'.research_output = state.research_output
              /\ state'.analysis_output = state.analysis_output
              /\ state'.validation_output = state.validation_output
              /\ state'.quality_score = state.quality_score
        /\ state.validation_output = NoneText => state.quality_score = 0
        /\ state'.validation_output = NoneText => state'.quality_score = 0 ]_vars

C18_Witness ==
    /\ FourthReturned
    /\ IsRefine(calls[4].action)
    /\ state.analysis_output # NoneText
    /\ state.quality_score = results.action_sequence[3].quality_after[1]
    /\ state.quality_score > 0

\* the underlying call failed: it raised, or its answer has no content
CallBroke(out) == ~out.ok \/ out.content = NoneText

\* C19: _execute_llm returns a response for everything the API can do; when
\* the call failed the response has success false, an error, empty content
\* and zero usage, and the token total of the workflow does not grow.
C19_FailureIsData ==
    (pc = "exec" /\ ret.done) =>
        /\ ret.response.success <=> ~CallBroke(arg.out)
        /\ CallBroke(arg.out) =>
              /\ ret.response.error # None
              /\ ret.response.content = <<>>
              /\ ret.response.token_usage.prompt_tokens = 0
              /\ ret.response.token_usage.completion_tokens = 0
              /\ ret.response.token_usage.total_tokens = 0
              /\ ret.response.latency_ms = arg.out.latency_ms
              /\ ret.total_tokens = arg.total_tokens
        /\ ~CallBroke(arg.out) => ret.response.error = None

C19_Witness ==
    /\ pc = "exec"
    /\ ret.done
    /\ arg.out.ok
    /\ arg.out.content = NoneText
    /\ arg.out.total_tokens > 0
    /\ arg.total_tokens > 0
    /\ ~ret.response.success
    /\ ret.total_tokens = arg.total_tokens

\* C20: the extracted score lies in [0,1] for every text.
C20_ScoreInRange ==
    (pc = "extract" /\ ret.done) => ret.score \in 0..ScoreCap

C20_Witness ==
    /\ pc = "extract"
    /\ ret.done
    /\ arg.text = <<"Quality Score", "150">>
    /\ ret.score = ScoreCap

\* positions i and j of the text lie on the same line
SameLine(t, i, j) ==
    \A k \in (IF i <= j THEN i ELSE j)..(IF i <= j THEN j ELSE i) : t[k] # NL

\* token i is the marker, in any case
IsMarker(t, i) == t[i] \in {"quality score", "Quality Score", "QUALITY SCORE"}

HasMarkerLine(t) == \E i \in 1..Len(t) : IsMarker(t, i)

\* position k holds an integer on a line that has the marker
Scoring(t, k) ==
    /\ IsInt(t[k])
    /\ \E m \in 1..Len(t) : IsMarker(t, m) /\ SameLine(t, m, k)

\* the keyword steps of the ladder
KeywordScore(t) ==
    IF \E i \in 1..Len(t) : t[i] \in {"PASS", "APPROVE"} THEN ApproveScore
    ELSE IF \E i \in 1..Len(t) : t[i] = "REVISE" THEN ReviseScore
    ELSE FallbackScore

\* C21 (as claimed): when some line has the marker the score is the clamped
\* first integer of a marker line, whatever keywords the text has; when no
\* line has the marker the score is 0.8 for PASS or APPROVE, else 0.6 for
\* REVISE, else 0.4.
C21_Ladder ==
    (pc = "extract" /\ ret.done) =>
        LET t == arg.text
        IN IF HasMarkerLine(t)
           THEN \E k \in 1..Len(t) :
                    /\ Scoring(t, k)
                    /\ \A j \in 1..(k - 1) : SameLine(t, j, k) => ~IsInt(t[j])
                    /\ ret.score = Min(IntOf[t[k]], ScoreCap)
           ELSE ret.score = KeywordScore(t)

\* C21 (amended): when some line has both the marker and an integer the
\* score is the clamped first integer of the first such line, whatever
\* keywords the text has; otherwise, and so also when every marker line lacks
\* an integer, the score is 0.8 for PASS or APPROVE, else 0.6 for REVISE,
\* else 0.4.
C21_LadderFirstScoredLine ==
    (pc = "extract" /\ ret.done) =>
        LET t == arg.text
        IN IF \E k \in 1..Len(t) : Scoring(t, k)
           THEN LET k == CHOOSE i \in 1..Len(t) :
                             Scoring(t, i) /\ \A j \in 1..(i - 1) : ~Scoring(t, j)
                IN ret.score = Min(IntOf[t[k]], ScoreCap)
           ELSE ret.score = KeywordScore(t)

C21_Witness ==
    /\ pc = "extract"
    /\ ret.done
    /\ arg.text = <<"Quality Score", NL, "PASS">>
    /\ ret.score = ApproveScore

----------------------------------------------------------------------------
(* The logs, the totals and the order of the stages *)

Last(seq) == seq[Len(seq)]

IsPrefix(a, b) == Len(a) <= Len(b) /\ SubSeq(b, 1, Len(a)) = a

\* C22: action_history only grows at its end; an entry is added to
\* action_sequence in the iteration that dispatched its action, with that
\* iteration as its attempt and the action last added to action_history as
\* its action; the loop is never left with an action in action_history that
\* has no entry; at the return the two logs have the same length and the
\* same actions in the same order, with strictly increasing attempts.
C22_HistoryMatchesSequence ==
    /\ [][ /\ IsPrefix(state.action_history, state'.action_history)
           /\ Len(state'.action_history) <= Len(state.action_history) + 1
           /\ IsPrefix(results.action_sequence, results'.action_sequence)
           /\ Len(results'.action_sequence) = Len(results.action_sequence) + 1 =>
                 /\ Last(results'.action_sequence).attempt = iterations
                 /\ Last(results'.action_sequence).action = Last(state.action_history)
                 /\ Len(results'.action_sequence) = Len(state.action_history)
                 /\ state'.action_history = state.action_history ]_vars
    /\ [](pc \in {"loop", "final", "done"} =>
             Len(results.action_sequence) = Len(state.action_history))
    /\ [](pc = "done" =>
             /\ ActionsOf(results.action_sequence) = state.action_history
             /\ \A i, j \in 1..Len(results.action_sequence) :
                   i < j => results.action_sequence[i].attempt
                               < results.action_sequence[j].attempt
             /\ \A i \in 1..Len(results.action_sequence) :
                   results.action_sequence[i].attempt = calls[i].attempt)

C22_Witness ==
    /\ pc = "done"
    /\ Len(results.action_sequence) = 4
    /\ state.action_history = <<"research", "analyze", "validate", "refine_minor">>
    /\ ActionsOf(results.action_sequence) = state.action_history
    /\ results.action_sequence[4].attempt = 4

\* C23: an entry of action_sequence has a quality_after exactly when its
\* action is validate, and then it is the score extracted from the response
\* of that validation.
C23_QualityAfterOnlyForValidate ==
    \A i \in 1..Len(results.action_sequence) :
        LET e == results.action_sequence[i]
        IN /\ e.quality_after # <<>> <=> e.action = "validate"
           /\ e.action = "validate" =>
                 /\ results.stages["validation"] # <<>>
                 /\ results.stages["validation"][1].attempt = e.attempt
                 /\ e.quality_after =
                       <<_extract_quality_score(
                             results.stages["validation"][1].response)>>

C23_Witness ==
    /\ pc = "done"
    /\ Len(results.action_sequence) = 4
    /\ results.action_sequence[3].action = "validate"
    /\ results.action_sequence[3].quality_after = <<49>>
    /\ results.action_sequence[4].action = "research"
    /\ results.action_sequence[4].quality_after = <<>>
    /\ results.action_sequence[1].quality_after = <<>>

RECURSIVE SumOf(_, _)
SumOf(seq, field) ==
    IF seq = <<>> THEN 0 ELSE Head(seq)[field] + SumOf(Tail(seq), field)

\* C24 (as claimed): at the return total_tokens and total_latency_ms are the
\* sums of the tokens and of the latencies of every capability call of the
\* workflow: the calls of the loop, the failed one included, and the boundary
\* classification call.
C24_TotalsCoverEveryCall ==
    (pc = "done" /\ boundary.is_valid) =>
        /\ results.metrics.total_tokens
              = SumOf(calls, "tokens") + boundary.resp.total_tokens
        /\ results.metrics.total_latency_ms
              = SumOf(calls, "latency_ms") + boundary.resp.latency_ms

\* C26: analyze is dispatched only with research_output set, validate and
\* the refinements only with analysis_output set, a refinement only after a
\* validate has returned; the first three actions dispatched are research,
\* analyze and validate, as far as the run gets.
C26_DependencyOrder ==
    /\ [][ Len(calls') = Len(calls) + 1 =>
              LET a == Last(calls').action
              IN /\ a = "analyze" => state.research_output # NoneText
                 /\ a \in {"validate", "refine_analysis", "refine_minor"} =>
                       state.analysis_output # NoneText
                 /\ IsRefine(a) =>
                       /\ state.validation_output # NoneText
                       /\ \E i \in 1..Len(calls) :
                             calls[i].action = "validate" /\ calls[i].status = "ok"
                 /\ Last(state'.action_history) = a ]_vars
    /\ [](IsPrefix(SubSeq(state.action_history, 1, Min(3, Len(state.action_history))),
                   <<"research", "analyze", "validate">>))

C26_Witness ==
    /\ pc = "awaiting"
    /\ next_action = "refine_analysis"
    /\ state.action_history = <<"research", "analyze", "validate", "refine_analysis">>
    /\ state.research_output # NoneText
    /\ state.analysis_output # NoneText

\* C27: no more than max_attempts - 1 actions are dispatched, and in the
\* iteration in which attempts reaches max_attempts the planner returns stop
\* and nothing is dispatched.
C27_AtMostFourActions ==
    /\ [](/\ Len(state.action_history) <= state.max_attempts - 1
          /\ Len(calls) <= DefaultMaxAttempts - 1
          /\ state.max_attempts = DefaultMaxAttempts)
    /\ [][ (state'.attempts # state.attempts /\ state'.attempts = state'.max_attempts) =>
              /\ next_action' = None
              /\ pc' = "final"
              /\ state'.action_history = state.action_history
              /\ calls' = calls ]_vars

C27_Witness ==
    /\ pc = "final"
    /\ next_action = None
    /\ state.attempts = state.max_attempts
    /\ Len(state.action_history) = DefaultMaxAttempts - 1
    /\ calls[4].status = "ok"

----------------------------------------------------------------------------
(* Concurrent workflows and the research restart *)

\* C25: whatever the interleaving of two calls on one service instance, the
\* result each call returns, and the AgentState it leaves, are those of the
\* same call run alone on the same capability responses.
C25_NoInterference ==
    pc = "pair" =>
        \A i \in Workflows :
            arg.frames[i].pc = "done" =>
                LET solo == Solo(arg.frames[i].resp, arg.frames[i].script, threshold)
                IN /\ solo.pc = "done"
                   /\ arg.frames[i].results = solo.results
                   /\ arg.store[i] = solo.state

C25_Witness ==
    /\ pc = "pair"
    /\ arg.overlapped
    /\ arg.frames[1].pc = "done"
    /\ arg.frames[2].pc = "done"
    /\ arg.frames[1].results.status = "completed"
    /\ arg.frames[2].results.status = "max_attempts_reached"
    /\ Len(arg.frames[2].script) = 4
    /\ arg.store[1] # arg.store[2]

----------------------------------------------------------------------------
(* The planner inside the loop, the failed validation, the refinement count *)

AllOutputsSet(s) ==
    /\ s.research_output # NoneText
    /\ s.analysis_output # NoneText
    /\ s.validation_output # NoneText

\* C31: whenever the three outputs are set and quality_score is at or above
\* the threshold, goal_achieved is already true; so when the loop calls the
\* planner its last row is not taken, and the iteration changes the state
\* only by the increment of attempts and the append to action_history.
C31_NoFallThroughInLoop ==
    /\ []((AllOutputsSet(state) /\ state.quality_score >= threshold)
             => state.goal_achieved)
    /\ [][ (pc = "loop" /\ LoopCondition(state)) =>
              /\ ~FallsThrough([state EXCEPT !.attempts = @ + 1], threshold)
              /\ state' = [state EXCEPT !.attempts = @ + 1,
                                        !.action_history = state'.action_history]
              /\ planner_calls' = planner_calls + 1 ]_vars

C31_Witness ==
    /\ pc = "final"
    /\ planner_calls = 4
    /\ next_action = None
    /\ AllOutputsSet(state)
    /\ state.quality_score >= threshold
    /\ state.goal_achieved
    /\ state.attempts < state.max_attempts
    /\ NoCallFailed

\* C32: when the validate call failed, validation_output is the empty
\* string, quality_score is the fallback 0.4, the validation stage holds the
\* failed response, and the final_quality_score returned is 0.4.
C32_FailedValidateIsStored ==
    \A i \in 1..Len(calls) :
        (calls[i].action = "validate" /\ CallFailed(i)) =>
            /\ state.validation_output = SomeText(<<>>)
            /\ state.quality_score = FallbackScore
            /\ results.stages["validation"] # <<>>
            /\ results.stages["validation"][1].response = <<>>
            /\ ~results.stages["validation"][1].success
            /\ results.stages["validation"][1].quality_score = FallbackScore
            /\ Last(results.action_sequence).quality_after = <<FallbackScore>>
            /\ results.failed_action = "validate"
            /\ pc = "done" => results.final_quality_score = <<FallbackScore>>

C32_Witness ==
    /\ pc = "done"
    /\ Len(calls) = 3
    /\ calls[3].action = "validate"
    /\ CallFailed(3)
    /\ threshold = 75
    /\ results.final_quality_score = <<FallbackScore>>
    /\ results.status = "failed"

\* a validation has scored below the threshold
ScoredBelow ==
    \E i \in 1..Len(results.action_sequence) :
        /\ results.action_sequence[i].action = "validate"
        /\ results.action_sequence[i].quality_after[1] < threshold

\* C33: at the return refinement_loops is the number of refine_analysis and
\* refine_minor entries of action_history, a refinement whose call failed
\* included, and it is 0 when no validation scored below the threshold.
C33_RefinementLoops ==
    (pc = "done" /\ boundary.is_valid) =>
        /\ results.metrics.refinement_loops
              = CountOf(state.action_history, "refine_analysis")
                  + CountOf(state.action_history, "refine_minor")
        /\ ~ScoredBelow => results.metrics.refinement_loops = 0

C33_Witness ==
    /\ pc = "done"
    /\ Len(calls) = 4
    /\ calls[4].action = "refine_minor"
    /\ CallFailed(4)
    /\ results.metrics.refinement_loops = 1
    /\ ScoredBelow

====
